---- MODULE Spec2Model ----
(***************************************************************************)
(* State-machine model of the polling / aggregation / action core of the   *)
(* n8n Integration Hub front-end:                                          *)
(*   IntegrationStatus   (Health Aggregator)   src/unnamed/part_000        *)
(*   ExecutionMonitor    (Execution Feed)      src/unnamed/part_001        *)
(*   WorkflowStatusPanel (Action Dispatcher)   src/unnamed/part_002        *)
(*   useModuleApi        (Integration Client)  src/unnamed/part_003        *)
(* A backend call is a record in an in-flight queue; its promise settles   *)
(* in a later step, in any order.  Time is the remaining delay of the      *)
(* interval timers.                                                        *)
(***************************************************************************)
EXTENDS Integers, Sequences, FiniteSets, TLC

VARIABLES
    isAuthenticated,  \* useAuth().isAuthenticated, shared by the components
    \* ---- IntegrationStatus
    hMounted,         \* the component instance exists
    integrations,     \* useState: the exposed health list
    hLoading,         \* useState: loading
    hTimers,          \* active setInterval timers created by the component
    hCleanup,         \* id of the timer the pending effect cleanup clears (0: none)
    hInFlight,        \* api.getIntegrationsHealth() promises not yet settled
    hLastResp,        \* history: outcome of the last settled health call that was applied
    \* ---- ExecutionMonitor
    eMounted,         \* the component instance exists
    executions,       \* useState: the exposed execution window
    eLoading,         \* useState: loading
    eError,           \* useState: error (Null or a message)
    filter,           \* useState: filter
    expanded,         \* useState: expanded
    autoRefresh,      \* useState: autoRefresh
    eTimers,          \* active setInterval timers created by the component
    eCleanup,         \* id of the timer the pending effect cleanup clears (0: none)
    eInFlight,        \* api.getExecutions() promises not yet settled
    eLastResp,        \* history: outcome of the last settled fetch that was applied
    \* ---- WorkflowStatusPanel
    wMounted,         \* the component instance exists
    workflows,        \* useState: the workflow list
    wLoading,         \* useState: loading
    wError,           \* useState: error (Null or a message)
    selectedEntityId,   \* useViewer().selectedEntityId ("" when nothing is selected)
    selectedEntityType, \* useViewer().selectedEntityType (<<>> when undefined)
    wInFlight,        \* promises of the panel's api calls not yet settled
    \* ---- history of the last step
    lastOp            \* [op, arg]: the handler that ran last

hVars == <<hMounted, integrations, hLoading, hTimers, hCleanup, hInFlight, hLastResp>>
eVars == <<eMounted, executions, eLoading, eError, filter, expanded, autoRefresh,
           eTimers, eCleanup, eInFlight, eLastResp>>
wVars == <<wMounted, workflows, wLoading, wError, wInFlight>>
viewer == <<selectedEntityId, selectedEntityType>>
vars == <<isAuthenticated, viewer, hVars, eVars, wVars, lastOp>>
\* what the handlers of one component leave alone
xhVars == <<eVars, wVars, viewer>>
xeVars == <<hVars, wVars, viewer>>
xwVars == <<hVars, eVars>>

----------------------------------------------------------------------------
(* Bounds of the model *)

\* at most this many unsettled promises per component
MaxInFlight == 2
\* longest health response (number of elements) the backend sends
MaxRespLen == 2

----------------------------------------------------------------------------
(* Program constants *)

HealthIntervalMs == 60000
ExecIntervalMs == 10000
\* latency?: number  -- the field is absent (undefined)
NoLatency == -1
\* limit: expanded ? 50 : 10
LimitExpanded == 50
LimitCollapsed == 10
\* useState<string | null>(null)
Null == "null"

Statuses == {"healthy", "degraded", "unhealthy", "unknown"}

RegistryIds == <<"n8n", "sentinel", "intelligence", "notifications", "odoo", "ros2">>

\* useState initial value of `integrations`
InitialIntegrations ==
    [i \in 1..Len(RegistryIds) |->
        [id |-> RegistryIds[i], status |-> "unknown", latency |-> NoLatency]]

----------------------------------------------------------------------------
(* Helpers *)

Min2(a, b) == IF a <= b THEN a ELSE b

SetMin(S) == CHOOSE x \in S : \A y \in S : x <= y

\* setInterval returns a handle not in use
NewTimerId(timers) ==
    SetMin({i \in 1..(Cardinality(timers) + 1) : \A t \in timers : t.id # i})

RemoveAt(q, i) == [j \in 1..(Len(q) - 1) |-> IF j < i THEN q[j] ELSE q[j + 1]]

\* the promises of a torn-down effect scope / of a destroyed component instance
MarkStopped(q) == [j \in 1..Len(q) |-> IF q[j].st = "cur" THEN [q[j] EXCEPT !.st = "stopped"] ELSE q[j]]
MarkDead(q) == [j \in 1..Len(q) |-> [q[j] EXCEPT !.st = "dead"]]

\* history: the outcome of call i is applied, the calls started before it that are
\* still pending have been overtaken
Overtake(q, i) ==
    [j \in 1..Len(q) |-> IF j < i THEN [q[j] EXCEPT !.overtaken = TRUE] ELSE q[j]]

\* the record kept in lastOp: handler, a label, a timer id
Op(name, arg, n) == [op |-> name, arg |-> arg, n |-> n]

----------------------------------------------------------------------------
(* Integration Client: what GET /health/integrations may answer *)

RespIds == {"n8n", "sentinel", "other"}

HealthElems ==
    { [id |-> "n8n", status |-> "healthy", latency |-> 42],
      [id |-> "n8n", status |-> "unhealthy", latency |-> NoLatency],
      [id |-> "sentinel", status |-> "degraded", latency |-> 7],
      [id |-> "sentinel", status |-> "unknown", latency |-> 42],
      [id |-> "other", status |-> "healthy", latency |-> 42] }

\* an answer with an element for every registered integration but the last k
AnswerAllBut(k) ==
    [i \in 1..(Len(RegistryIds) - k) |->
        [id |-> RegistryIds[i],
         status |-> IF i = 2 THEN "unhealthy" ELSE IF i = 4 THEN "degraded" ELSE "healthy",
         latency |-> IF i = 3 THEN NoLatency ELSE 10 * i]]

HealthResponses ==
    UNION { [1..n -> HealthElems] : n \in 0..MaxRespLen }
        \cup {AnswerAllBut(0), AnswerAllBut(1), AnswerAllBut(3)}

\* the answers the life-cycle specifications draw from
SampleHealthResponses ==
    { <<>>,
      <<[id |-> "n8n", status |-> "healthy", latency |-> 42]>>,
      <<[id |-> "sentinel", status |-> "degraded", latency |-> 7],
        [id |-> "n8n", status |-> "unhealthy", latency |-> NoLatency]>> }

\* healthData.find(h => h.id === id): index of the first match, 0 when none
Find(healthData, id) ==
    IF \E k \in 1..Len(healthData) : healthData[k].id = id
    THEN SetMin({k \in 1..Len(healthData) : healthData[k].id = id})
    ELSE 0

\* mutant: an integration without an element keeps its previous entry
ApplyHealthKeepsPrev(prev, healthData) ==
    [i \in 1..Len(prev) |->
        LET k == Find(healthData, prev[i].id) IN
        IF k = 0 THEN prev[i]
        ELSE [prev[i] EXCEPT !.status = healthData[k].status, !.latency = healthData[k].latency]]

\* mutant: only the first entry is rewritten by a response
ApplyHealthFirstOnly(prev, healthData) ==
    [i \in 1..Len(prev) |->
        LET k == Find(healthData, prev[i].id) IN
        IF i > 1 THEN prev[i]
        ELSE [prev[i] EXCEPT !.status = IF k = 0 THEN "unknown" ELSE healthData[k].status,
                             !.latency = IF k = 0 THEN NoLatency ELSE healthData[k].latency]]

\* mutant: a response sets the status and leaves the latency of the entry
ApplyHealthStatusOnly(prev, healthData) ==
    [i \in 1..Len(prev) |->
        LET k == Find(healthData, prev[i].id) IN
        [prev[i] EXCEPT !.status = IF k = 0 THEN "unknown" ELSE healthData[k].status]]

\* prev.map(integration => ({...integration, status: health?.status || 'unknown',
\*                           latency: health?.latency}))
ApplyHealth(prev, healthData) ==
    [i \in 1..Len(prev) |->
        LET k == Find(healthData, prev[i].id) IN
        [prev[i] EXCEPT
            !.status = IF k = 0 THEN "unknown"
                       ELSE IF healthData[k].status = "" THEN "unknown"
                       ELSE healthData[k].status,
            !.latency = IF k = 0 THEN NoLatency ELSE healthData[k].latency]]

\* mutant: the error path empties the list
ApplyHealthErrorClears(prev) == <<>>

\* mutant: the error path reports every integration as unhealthy
ApplyHealthErrorUnhealthy(prev) ==
    [i \in 1..Len(prev) |-> [prev[i] EXCEPT !.status = "unhealthy"]]

\* prev.map(i => ({ ...i, status: 'unknown' }))
ApplyHealthError(prev) ==
    [i \in 1..Len(prev) |-> [prev[i] EXCEPT !.status = "unknown"]]

----------------------------------------------------------------------------
(* IntegrationStatus *)

\* mutant: checkHealth without its isAuthenticated guard
CheckHealthQueueUnguarded(q, auth) == Append(q, [st |-> "cur", overtaken |-> FALSE])

\* checkHealth up to its await: the queue of promises after the call
CheckHealthQueue(q, auth) ==
    IF auth THEN Append(q, [st |-> "cur", overtaken |-> FALSE]) ELSE q

\* checkHealth up to its await: setLoading(true)
CheckHealthLoading(l, auth) == IF auth THEN TRUE ELSE l

CanCall(q, auth) == auth => Len(q) < MaxInFlight

\* mount: useState initial values, then the effect: checkHealth(); setInterval
HealthMount ==
    /\ ~hMounted
    /\ CanCall(hInFlight, isAuthenticated)
    /\ hMounted' = TRUE
    /\ integrations' = InitialIntegrations
    /\ hLoading' = CheckHealthLoading(FALSE, isAuthenticated)
    /\ hInFlight' = CheckHealthQueue(hInFlight, isAuthenticated)
    /\ LET id == NewTimerId(hTimers) IN
        /\ hTimers' = hTimers \cup {[id |-> id, rem |-> HealthIntervalMs, auth |-> isAuthenticated]}
        /\ hCleanup' = id
    /\ hLastResp' = [kind |-> "none", data |-> <<>>]
    /\ lastOp' = Op("HealthMount", "", 0)
    /\ UNCHANGED <<xhVars, isAuthenticated>>

\* mutant: the cleanup does not clear the interval
HealthCleanupNothing(timers, id) == timers

\* return () => clearInterval(interval)
HealthCleanupTimers(timers, id) == {t \in timers : t.id # id}

\* unmount: the effect cleanup runs, the instance is destroyed
HealthUnmount ==
    /\ hMounted
    /\ hMounted' = FALSE
    /\ hTimers' = HealthCleanupTimers(hTimers, hCleanup)
    /\ hCleanup' = 0
    /\ hInFlight' = MarkDead(hInFlight)
    /\ lastOp' = Op("HealthUnmount", "", 0)
    /\ UNCHANGED <<xhVars, isAuthenticated, integrations, hLoading, hLastResp>>

\* mutant: starting a poll blanks the list to placeholders
HealthTickBlanks(t) ==
    /\ t \in hTimers
    /\ t.rem = 0
    /\ CanCall(hInFlight, t.auth)
    /\ hTimers' = (hTimers \ {t}) \cup {[t EXCEPT !.rem = HealthIntervalMs]}
    /\ hLoading' = CheckHealthLoading(hLoading, t.auth)
    /\ hInFlight' = CheckHealthQueue(hInFlight, t.auth)
    /\ integrations' = IF t.auth THEN InitialIntegrations ELSE integrations
    /\ lastOp' = Op("HealthTick", "", t.id)
    /\ UNCHANGED <<xhVars, isAuthenticated, hMounted, hCleanup, hLastResp>>

\* the interval callback: checkHealth as captured by the effect that set the timer
HealthTick(t) ==
    /\ t \in hTimers
    /\ t.rem = 0
    /\ CanCall(hInFlight, t.auth)
    /\ hTimers' = (hTimers \ {t}) \cup {[t EXCEPT !.rem = HealthIntervalMs]}
    /\ hLoading' = CheckHealthLoading(hLoading, t.auth)
    /\ hInFlight' = CheckHealthQueue(hInFlight, t.auth)
    /\ lastOp' = Op("HealthTick", "", t.id)
    /\ UNCHANGED <<xhVars, isAuthenticated, hMounted, integrations, hCleanup, hLastResp>>

\* the refresh button: rendered when authenticated, disabled={loading}
HealthRefreshClick ==
    /\ hMounted
    /\ isAuthenticated
    /\ ~hLoading
    /\ CanCall(hInFlight, isAuthenticated)
    /\ hLoading' = CheckHealthLoading(hLoading, isAuthenticated)
    /\ hInFlight' = CheckHealthQueue(hInFlight, isAuthenticated)
    /\ lastOp' = Op("HealthRefreshClick", "", 0)
    /\ UNCHANGED <<xhVars, isAuthenticated, hMounted, integrations, hTimers, hCleanup, hLastResp>>

\* the promise of request i resolves with healthData: try body, then finally
HealthResolve(i, healthData) ==
    /\ i \in 1..Len(hInFlight)
    /\ hInFlight' = RemoveAt(IF hInFlight[i].st = "dead" THEN hInFlight
                             ELSE Overtake(hInFlight, i), i)
    /\ IF hInFlight[i].st = "dead"
       THEN UNCHANGED <<integrations, hLoading, hLastResp>>
       ELSE /\ integrations' = ApplyHealth(integrations, healthData)
            /\ hLoading' = FALSE
            /\ hLastResp' = [kind |-> "ok", data |-> healthData]
    /\ lastOp' = Op("HealthResolve", hInFlight[i].st, 0)
    /\ UNCHANGED <<xhVars, isAuthenticated, hMounted, hTimers, hCleanup>>

\* the promise of request i rejects: catch, then finally
HealthReject(i) ==
    /\ i \in 1..Len(hInFlight)
    /\ hInFlight' = RemoveAt(IF hInFlight[i].st = "dead" THEN hInFlight
                             ELSE Overtake(hInFlight, i), i)
    /\ IF hInFlight[i].st = "dead"
       THEN UNCHANGED <<integrations, hLoading, hLastResp>>
       ELSE /\ integrations' = ApplyHealthError(integrations)
            /\ hLoading' = FALSE
            /\ hLastResp' = [kind |-> "fail", data |-> <<>>]
    /\ lastOp' = Op("HealthReject", hInFlight[i].st, 0)
    /\ UNCHANGED <<xhVars, isAuthenticated, hMounted, hTimers, hCleanup>>

\* isAuthenticated changes to b: the effect [isAuthenticated] is cleaned up and re-run
HealthOnAuth(b) ==
    IF hMounted
    THEN /\ CanCall(hInFlight, b)
         /\ hLoading' = CheckHealthLoading(hLoading, b)
         /\ hInFlight' = CheckHealthQueue(MarkStopped(hInFlight), b)
         /\ LET rest == HealthCleanupTimers(hTimers, hCleanup)
                id == NewTimerId(rest) IN
             /\ hTimers' = rest \cup {[id |-> id, rem |-> HealthIntervalMs, auth |-> b]}
             /\ hCleanup' = id
         /\ UNCHANGED <<hMounted, integrations, hLastResp>>
    ELSE UNCHANGED hVars

----------------------------------------------------------------------------
(* ExecutionMonitor *)

\* the <option> values of the filter select
Filters == {"all", "success", "error", "running"}

\* mockExecutions; startedAgo: startedAt = Date.now() - startedAgo (ms)
MockExecutions ==
    << [id |-> "1", workflowId |-> "wf-1", status |-> "success", startedAgo |-> 5 * 60 * 1000,
        duration |-> 3200, mode |-> "trigger"],
       [id |-> "2", workflowId |-> "wf-2", status |-> "running", startedAgo |-> 2 * 60 * 1000,
        duration |-> -1, mode |-> "webhook"],
       [id |-> "3", workflowId |-> "wf-3", status |-> "success", startedAgo |-> 15 * 60 * 1000,
        duration |-> 8500, mode |-> "cron"],
       [id |-> "4", workflowId |-> "wf-1", status |-> "error", startedAgo |-> 30 * 60 * 1000,
        duration |-> 1200, mode |-> "trigger"],
       [id |-> "5", workflowId |-> "wf-4", status |-> "success", startedAgo |-> 60 * 60 * 1000,
        duration |-> 4500, mode |-> "cron"] >>

\* mutant: the window is set without filtering
FilterExecutionsAll(f) == MockExecutions

\* mockExecutions.filter(e => filter === 'all' || e.status === filter)
FilterExecutions(f) ==
    LET Keep(e) == f = "all" \/ e.status = f IN SelectSeq(MockExecutions, Keep)

\* what GET /n8n/executions may answer (response.executions, by record id)
ExecResponses == { <<>>, <<"4", "2">> }

\* err.message of a rejected call
ErrMessages == {"", "Network Error"}

\* api.getExecutions({status: filter !== 'all' ? filter : undefined, limit: expanded ? 50 : 10})
ExecRequest(f, ex) ==
    [st |-> "cur", filter |-> f, expanded |-> ex,
     status |-> IF f # "all" THEN f ELSE "undefined",
     limit |-> IF ex THEN LimitExpanded ELSE LimitCollapsed]

\* fetchExecutions up to its await, with the closure (auth, f, ex) of its render
FetchExecutionsQueue(q, auth, f, ex) ==
    IF auth THEN Append(q, ExecRequest(f, ex)) ELSE q

FetchExecutionsLoading(l, auth) == IF auth THEN TRUE ELSE l

\* mutant: the cleanup leaves the interval running
ExecCleanupNothing(timers, id) == timers

\* return () => clearInterval(interval)
ExecCleanupTimers(timers, id) == {t \in timers : t.id # id}

\* mutant: the interval is set whatever autoRefresh says
ExecSetIntervalAlways(timers, auth, f, ex, ar) ==
    timers \cup {[id |-> NewTimerId(timers), rem |-> ExecIntervalMs,
                  auth |-> auth, filter |-> f, expanded |-> ex]}

\* if (autoRefresh) { setInterval(fetchExecutions, 10000); return cleanup }
ExecSetInterval(timers, auth, f, ex, ar) ==
    IF ar
    THEN timers \cup {[id |-> NewTimerId(timers), rem |-> ExecIntervalMs,
                       auth |-> auth, filter |-> f, expanded |-> ex]}
    ELSE timers

ExecCleanupId(timers, ar) == IF ar THEN NewTimerId(timers) ELSE 0

\* mutant: a dependency change only re-arms the interval and leaves the fetch
\* to the next tick
ExecRunEffectTimerOnly(auth, f, ex, ar) ==
    /\ CanCall(eInFlight, auth)
    /\ eLoading' = eLoading
    /\ eInFlight' = MarkStopped(eInFlight)
    /\ LET rest == ExecCleanupTimers(eTimers, eCleanup) IN
        /\ eTimers' = ExecSetInterval(rest, auth, f, ex, ar)
        /\ eCleanup' = ExecCleanupId(rest, ar)

\* the effect [isAuthenticated, filter, expanded, autoRefresh] runs with new values:
\* the previous cleanup, fetchExecutions(), the new interval
ExecRunEffect(auth, f, ex, ar) ==
    /\ CanCall(eInFlight, auth)
    /\ eLoading' = FetchExecutionsLoading(eLoading, auth)
    /\ eInFlight' = FetchExecutionsQueue(MarkStopped(eInFlight), auth, f, ex)
    /\ LET rest == ExecCleanupTimers(eTimers, eCleanup) IN
        /\ eTimers' = ExecSetInterval(rest, auth, f, ex, ar)
        /\ eCleanup' = ExecCleanupId(rest, ar)

\* mount: useState initial values, then the effect
ExecMount ==
    /\ ~eMounted
    /\ CanCall(eInFlight, isAuthenticated)
    /\ eMounted' = TRUE
    /\ executions' = <<>>
    /\ eError' = Null
    /\ filter' = "all"
    /\ expanded' = FALSE
    /\ autoRefresh' = TRUE
    /\ eLoading' = FetchExecutionsLoading(FALSE, isAuthenticated)
    /\ eInFlight' = FetchExecutionsQueue(eInFlight, isAuthenticated, "all", FALSE)
    /\ eTimers' = ExecSetInterval(eTimers, isAuthenticated, "all", FALSE, TRUE)
    /\ eCleanup' = ExecCleanupId(eTimers, TRUE)
    /\ eLastResp' = [kind |-> "none", data |-> <<>>]
    /\ lastOp' = Op("ExecMount", "", 0)
    /\ UNCHANGED <<xeVars, isAuthenticated>>

\* unmount: the pending cleanup (if any) runs, the instance is destroyed
ExecUnmount ==
    /\ eMounted
    /\ eMounted' = FALSE
    /\ eTimers' = ExecCleanupTimers(eTimers, eCleanup)
    /\ eCleanup' = 0
    /\ eInFlight' = MarkDead(eInFlight)
    /\ lastOp' = Op("ExecUnmount", "", 0)
    /\ UNCHANGED <<xeVars, isAuthenticated, executions, eLoading, eError, filter, expanded,
                   autoRefresh, eLastResp>>

\* the interval callback: fetchExecutions as captured by the effect that set the timer
ExecTick(t) ==
    /\ t \in eTimers
    /\ t.rem = 0
    /\ CanCall(eInFlight, t.auth)
    /\ eTimers' = (eTimers \ {t}) \cup {[t EXCEPT !.rem = ExecIntervalMs]}
    /\ eLoading' = FetchExecutionsLoading(eLoading, t.auth)
    /\ eInFlight' = FetchExecutionsQueue(eInFlight, t.auth, t.filter, t.expanded)
    /\ lastOp' = Op("ExecTick", "", t.id)
    /\ UNCHANGED <<xeVars, isAuthenticated, eMounted, executions, eError, filter, expanded,
                   autoRefresh, eCleanup, eLastResp>>

\* the controls are rendered when authenticated
ExecControls == eMounted /\ isAuthenticated

\* <select onChange={e => setFilter(e.target.value)}>
SetFilter(f) ==
    /\ ExecControls
    /\ f # filter
    /\ filter' = f
    /\ ExecRunEffect(isAuthenticated, f, expanded, autoRefresh)
    /\ lastOp' = Op("SetFilter", f, 0)
    /\ UNCHANGED <<xeVars, isAuthenticated, eMounted, executions, eError, expanded,
                   autoRefresh, eLastResp>>

\* onClick={() => setExpanded(!expanded)}
ToggleExpanded ==
    /\ ExecControls
    /\ expanded' = ~expanded
    /\ ExecRunEffect(isAuthenticated, filter, ~expanded, autoRefresh)
    /\ lastOp' = Op("ToggleExpanded", "", 0)
    /\ UNCHANGED <<xeVars, isAuthenticated, eMounted, executions, eError, filter,
                   autoRefresh, eLastResp>>

\* onClick={() => setAutoRefresh(!autoRefresh)}
ToggleAutoRefresh ==
    /\ ExecControls
    /\ autoRefresh' = ~autoRefresh
    /\ ExecRunEffect(isAuthenticated, filter, expanded, ~autoRefresh)
    /\ lastOp' = Op("ToggleAutoRefresh", "", 0)
    /\ UNCHANGED <<xeVars, isAuthenticated, eMounted, executions, eError, filter,
                   expanded, eLastResp>>

\* mutant: a successful fetch that leaves the error message in place
ExecResolveKeepsError(i, response) ==
    /\ i \in 1..Len(eInFlight)
    /\ eInFlight' = RemoveAt(eInFlight, i)
    /\ IF eInFlight[i].st = "dead"
       THEN UNCHANGED <<executions, eError, eLoading, eLastResp>>
       ELSE /\ executions' = FilterExecutions(eInFlight[i].filter)
            /\ eLoading' = FALSE
            /\ eLastResp' = [kind |-> "ok", data |-> response]
            /\ UNCHANGED eError
    /\ lastOp' = Op("ExecResolve", eInFlight[i].st, 0)
    /\ UNCHANGED <<xeVars, isAuthenticated, eMounted, filter, expanded, autoRefresh,
                   eTimers, eCleanup>>

\* the promise of request i resolves with `response`: try body, then finally
ExecResolve(i, response) ==
    /\ i \in 1..Len(eInFlight)
    /\ eInFlight' = RemoveAt(eInFlight, i)
    /\ IF eInFlight[i].st = "dead"
       THEN UNCHANGED <<executions, eError, eLoading, eLastResp>>
       ELSE /\ executions' = FilterExecutions(eInFlight[i].filter)
            /\ eError' = Null
            /\ eLoading' = FALSE
            /\ eLastResp' = [kind |-> "ok", data |-> response]
    /\ lastOp' = Op("ExecResolve", eInFlight[i].st, 0)
    /\ UNCHANGED <<xeVars, isAuthenticated, eMounted, filter, expanded, autoRefresh,
                   eTimers, eCleanup>>

\* err.message || 'Failed to load executions'
ExecErrorText(msg) == IF msg = "" THEN "Failed to load executions" ELSE msg

\* mutant: the catch block empties the window
ExecRejectClearsWindow(i, msg) ==
    /\ i \in 1..Len(eInFlight)
    /\ eInFlight' = RemoveAt(eInFlight, i)
    /\ IF eInFlight[i].st = "dead"
       THEN UNCHANGED <<executions, eError, eLoading, eLastResp>>
       ELSE /\ eError' = ExecErrorText(msg)
            /\ eLoading' = FALSE
            /\ eLastResp' = [kind |-> "fail", data |-> <<>>]
            /\ executions' = <<>>
    /\ lastOp' = Op("ExecReject", eInFlight[i].st, 0)
    /\ UNCHANGED <<xeVars, isAuthenticated, eMounted, filter, expanded, autoRefresh,
                   eTimers, eCleanup>>

\* the promise of request i rejects with err.message = msg: catch, then finally
ExecReject(i, msg) ==
    /\ i \in 1..Len(eInFlight)
    /\ eInFlight' = RemoveAt(eInFlight, i)
    /\ IF eInFlight[i].st = "dead"
       THEN UNCHANGED <<executions, eError, eLoading, eLastResp>>
       ELSE /\ eError' = ExecErrorText(msg)
            /\ eLoading' = FALSE
            /\ eLastResp' = [kind |-> "fail", data |-> <<>>]
            /\ UNCHANGED executions
    /\ lastOp' = Op("ExecReject", eInFlight[i].st, 0)
    /\ UNCHANGED <<xeVars, isAuthenticated, eMounted, filter, expanded, autoRefresh,
                   eTimers, eCleanup>>

\* isAuthenticated changes to b while mounted: the effect is cleaned up and re-run
ExecOnAuth(b) ==
    IF eMounted
    THEN /\ ExecRunEffect(b, filter, expanded, autoRefresh)
         /\ UNCHANGED <<eMounted, executions, eError, filter, expanded, autoRefresh, eLastResp>>
    ELSE UNCHANGED eVars

----------------------------------------------------------------------------
(* WorkflowStatusPanel *)

\* strings whose characters matter are sequences of characters
TypeRobot == <<"R", "o", "b", "o", "t">>
TypeDevice == <<"D", "e", "v", "i", "c", "e">>
NameRobots == <<"r", "O", "B", "O", "T", "s">>
NameNdvi == <<"N", "D", "V", "I">>

\* String.prototype.toLowerCase, on the letters in use
LowerChar(c) ==
    CASE c = "R" -> "r" [] c = "O" -> "o" [] c = "B" -> "b" [] c = "T" -> "t"
      [] c = "D" -> "d" [] c = "N" -> "n" [] c = "V" -> "v" [] c = "I" -> "i"
      [] OTHER -> c

ToLowerCase(str) == [k \in 1..Len(str) |-> LowerChar(str[k])]

\* String.prototype.includes
Includes(str, sub) ==
    \E off \in 0..(Len(str) - Len(sub)) :
        \A k \in 1..Len(sub) : str[off + k] = sub[k]

\* w.name.toLowerCase().includes(selectedEntityType?.toLowerCase() || '')
RelatedToEntity(name, etype) == Includes(ToLowerCase(name), ToLowerCase(etype))

\* what GET /n8n/workflows may answer (response.workflows)
WorkflowResponses ==
    { <<>>,
      <<[id |-> "w1", name |-> NameRobots, active |-> TRUE],
        [id |-> "w2", name |-> NameNdvi, active |-> FALSE]>> }

\* (response.workflows || []).map(w => ({id, name, active, relatedToEntity}))
Summaries(ws, etype) ==
    [k \in 1..Len(ws) |->
        [id |-> ws[k].id, name |-> ws[k].name, active |-> ws[k].active,
         relatedToEntity |-> RelatedToEntity(ws[k].name, etype)]]

\* what useViewer may select
EntityChoices == { <<"", <<>>>>, <<"e1", TypeRobot>>, <<"e2", TypeDevice>> }

\* the effect [isAuthenticated, selectedEntityId, selectedEntityType]:
\* if (!isAuthenticated) return; fetchWorkflows() up to its await
PanelRunEffect(auth, etype) ==
    /\ CanCall(wInFlight, auth)
    /\ wLoading' = IF auth THEN TRUE ELSE wLoading
    /\ wError' = IF auth THEN Null ELSE wError
    /\ wInFlight' = IF auth
                    THEN Append(wInFlight, [st |-> "cur", kind |-> "getWorkflows", etype |-> etype])
                    ELSE wInFlight

PanelMount ==
    /\ ~wMounted
    /\ CanCall(wInFlight, isAuthenticated)
    /\ wMounted' = TRUE
    /\ workflows' = <<>>
    /\ wLoading' = isAuthenticated
    /\ wError' = Null
    /\ wInFlight' = IF isAuthenticated
                    THEN Append(wInFlight, [st |-> "cur", kind |-> "getWorkflows",
                                            etype |-> selectedEntityType])
                    ELSE wInFlight
    /\ lastOp' = Op("PanelMount", "", 0)
    /\ UNCHANGED <<xwVars, isAuthenticated, viewer>>

PanelUnmount ==
    /\ wMounted
    /\ wMounted' = FALSE
    /\ wInFlight' = MarkDead(wInFlight)
    /\ lastOp' = Op("PanelUnmount", "", 0)
    /\ UNCHANGED <<xwVars, isAuthenticated, viewer, workflows, wLoading, wError>>

\* the viewer selects another entity: the panel's effect re-runs when mounted
SelectEntity(c) ==
    /\ c \in EntityChoices
    /\ c # <<selectedEntityId, selectedEntityType>>
    /\ selectedEntityId' = c[1]
    /\ selectedEntityType' = c[2]
    /\ IF wMounted
       THEN PanelRunEffect(isAuthenticated, c[2]) /\ UNCHANGED <<wMounted, workflows>>
       ELSE UNCHANGED wVars
    /\ lastOp' = Op("SelectEntity", c[1], 0)
    /\ UNCHANGED <<xwVars, isAuthenticated>>

\* the panel body is rendered: authenticated and an entity selected
PanelControls == wMounted /\ isAuthenticated /\ selectedEntityId # ""

\* relatedWorkflows.slice(0, 5), the Execute button of an active one, shown when !loading
ExecutableWorkflows ==
    LET Shown(w) == w.relatedToEntity \/ w.active
        related == SelectSeq(workflows, Shown) IN
    {related[k].id : k \in {j \in 1..Len(related) : j <= 5 /\ related[j].active}}

\* executeWorkflow(workflowId) up to its first await: api.executeWorkflow(...)
ExecuteWorkflow(workflowId) ==
    /\ PanelControls
    /\ ~wLoading
    /\ workflowId \in ExecutableWorkflows
    /\ Len(wInFlight) < MaxInFlight
    /\ wInFlight' = Append(wInFlight, [st |-> "cur", kind |-> "executeWorkflow",
                                       etype |-> selectedEntityType])
    /\ lastOp' = Op("ExecuteWorkflow", workflowId, 0)
    /\ UNCHANGED <<xwVars, isAuthenticated, viewer, wMounted, workflows, wLoading, wError>>

\* Quick Actions: onClick={() => api.requestAnalysis(...)} / api.requestPrediction(...)
QuickActions == {"requestAnalysis", "requestPrediction"}

\* mutant: the click puts an optimistic record into the execution window
QuickActionOptimistic(a) ==
    /\ PanelControls
    /\ Len(wInFlight) < MaxInFlight
    /\ wInFlight' = Append(wInFlight, [st |-> "cur", kind |-> a, etype |-> selectedEntityType])
    /\ executions' = <<[id |-> "new", workflowId |-> a, status |-> "running",
                        startedAgo |-> 0, duration |-> -1, mode |-> "manual"]>> \o executions
    /\ lastOp' = Op("QuickAction", a, 0)
    /\ UNCHANGED <<hVars, eMounted, eLoading, eError, filter, expanded, autoRefresh, eTimers,
                   eCleanup, eInFlight, eLastResp>>
    /\ UNCHANGED <<isAuthenticated, viewer, wMounted, workflows, wLoading, wError>>

QuickAction(a) ==
    /\ PanelControls
    /\ Len(wInFlight) < MaxInFlight
    /\ wInFlight' = Append(wInFlight, [st |-> "cur", kind |-> a, etype |-> selectedEntityType])
    /\ lastOp' = Op("QuickAction", a, 0)
    /\ UNCHANGED <<xwVars, isAuthenticated, viewer, wMounted, workflows, wLoading, wError>>

\* setState of a destroyed instance is dropped
Live(r, new, old) == IF r.st = "dead" THEN old ELSE new

\* mutant: the catch block drops the error
ErrorTextSwallowed(msg, fallback) == Null

\* err.message || fallback
ErrorText(msg, fallback) == IF msg = "" THEN fallback ELSE msg

\* mutant: no re-fetch after a successful execution
NoRefetchAfterExecute(rest, r) == rest

\* executeWorkflow after its first await: const response = await api.getWorkflows()
RefetchAfterExecute(rest, r) ==
    Append(rest, [st |-> r.st, kind |-> "refetch", etype |-> r.etype])

\* the promise of request i resolves
PanelResolve(i, ws) ==
    /\ i \in 1..Len(wInFlight)
    /\ LET r == wInFlight[i]
           rest == RemoveAt(wInFlight, i) IN
        CASE r.kind = "getWorkflows" ->
                \* fetchWorkflows: setWorkflows(summaries); finally setLoading(false)
                /\ workflows' = Live(r, Summaries(ws, r.etype), workflows)
                /\ wLoading' = Live(r, FALSE, wLoading)
                /\ wInFlight' = rest
                /\ UNCHANGED wError
          [] r.kind = "executeWorkflow" ->
                \* executeWorkflow: setLoading(true); api.getWorkflows()
                /\ wLoading' = Live(r, TRUE, wLoading)
                /\ wInFlight' = RefetchAfterExecute(rest, r)
                /\ UNCHANGED <<workflows, wError>>
          [] r.kind = "refetch" ->
                \* executeWorkflow: setWorkflows(...map(...) || []); setLoading(false)
                /\ workflows' = Live(r, Summaries(ws, r.etype), workflows)
                /\ wLoading' = Live(r, FALSE, wLoading)
                /\ wInFlight' = rest
                /\ UNCHANGED wError
          [] OTHER ->
                \* a quick action: the promise goes back to the click handler
                /\ wInFlight' = rest
                /\ UNCHANGED <<workflows, wLoading, wError>>
    /\ lastOp' = Op("PanelResolve", wInFlight[i].kind, 0)
    /\ UNCHANGED <<xwVars, isAuthenticated, viewer, wMounted>>

\* the promise of request i rejects with err.message = msg
PanelReject(i, msg) ==
    /\ i \in 1..Len(wInFlight)
    /\ LET r == wInFlight[i] IN
        CASE r.kind = "getWorkflows" ->
                \* fetchWorkflows: catch setError; finally setLoading(false)
                /\ wError' = Live(r, ErrorText(msg, "Failed to load workflows"), wError)
                /\ wLoading' = Live(r, FALSE, wLoading)
          [] r.kind \in {"executeWorkflow", "refetch"} ->
                \* executeWorkflow: catch setError
                /\ wError' = Live(r, ErrorText(msg, "Failed to execute workflow"), wError)
                /\ UNCHANGED wLoading
          [] OTHER ->
                \* a quick action: the rejection goes back to the click handler
                UNCHANGED <<wLoading, wError>>
    /\ wInFlight' = RemoveAt(wInFlight, i)
    /\ lastOp' = Op("PanelReject", wInFlight[i].kind, 0)
    /\ UNCHANGED <<xwVars, isAuthenticated, viewer, wMounted, workflows>>

\* isAuthenticated changes to b while mounted: the effect re-runs
PanelOnAuth(b) ==
    IF wMounted
    THEN PanelRunEffect(b, selectedEntityType) /\ UNCHANGED <<wMounted, workflows>>
    ELSE UNCHANGED wVars

----------------------------------------------------------------------------
(* useAuth *)

SetAuthenticated(b) ==
    /\ b # isAuthenticated
    /\ isAuthenticated' = b
    /\ HealthOnAuth(b)
    /\ ExecOnAuth(b)
    /\ PanelOnAuth(b)
    /\ UNCHANGED viewer
    /\ lastOp' = Op("SetAuthenticated", "", 0)

----------------------------------------------------------------------------
(* Time *)

AllTimers == hTimers \cup eTimers

\* time passes, by at most d and not beyond the next expiry of a timer
Advance(d) ==
    /\ AllTimers # {}
    /\ \A t \in AllTimers : t.rem > 0
    /\ LET step == Min2(d, SetMin({t.rem : t \in AllTimers})) IN
        /\ hTimers' = {[t EXCEPT !.rem = t.rem - step] : t \in hTimers}
        /\ eTimers' = {[t EXCEPT !.rem = t.rem - step] : t \in eTimers}
    /\ lastOp' = Op("Advance", "", 0)
    /\ UNCHANGED <<isAuthenticated, hMounted, integrations, hLoading, hCleanup, hInFlight, hLastResp>>
    /\ UNCHANGED <<eMounted, executions, eLoading, eError, filter, expanded, autoRefresh,
                   eCleanup, eInFlight, eLastResp>>
    /\ UNCHANGED <<wVars, viewer>>

AdvanceSteps == {ExecIntervalMs, HealthIntervalMs}

----------------------------------------------------------------------------
(* Specifications *)

Init ==
    /\ isAuthenticated \in BOOLEAN
    /\ hMounted = FALSE
    /\ integrations = InitialIntegrations
    /\ hLoading = FALSE
    /\ hTimers = {}
    /\ hCleanup = 0
    /\ hInFlight = <<>>
    /\ hLastResp = [kind |-> "none", data |-> <<>>]
    /\ eMounted = FALSE
    /\ executions = <<>>
    /\ eLoading = FALSE
    /\ eError = Null
    /\ filter = "all"
    /\ expanded = FALSE
    /\ autoRefresh = TRUE
    /\ eTimers = {}
    /\ eCleanup = 0
    /\ eInFlight = <<>>
    /\ eLastResp = [kind |-> "none", data |-> <<>>]
    /\ wMounted = FALSE
    /\ workflows = <<>>
    /\ wLoading = FALSE
    /\ wError = Null
    /\ wInFlight = <<>>
    /\ selectedEntityId = ""
    /\ selectedEntityType = <<>>
    /\ lastOp = Op("Init", "", 0)

NextHealth ==
    \/ HealthMount
    \/ HealthUnmount
    \/ \E t \in hTimers : HealthTick(t)
    \/ HealthRefreshClick
    \/ \E i \in 1..Len(hInFlight), r \in SampleHealthResponses : HealthResolve(i, r)
    \/ \E i \in 1..Len(hInFlight) : HealthReject(i)
    \/ \E b \in BOOLEAN : SetAuthenticated(b)
    \/ \E d \in AdvanceSteps : Advance(d)

SpecHealth == Init /\ [][NextHealth]_vars

\* the health list over every answer of the backend, without timers
NextHealthData ==
    \/ HealthMount
    \/ HealthUnmount
    \/ HealthRefreshClick
    \/ \E b \in BOOLEAN : SetAuthenticated(b)
    \/ \E i \in 1..Len(hInFlight), r \in HealthResponses : HealthResolve(i, r)
    \/ \E i \in 1..Len(hInFlight) : HealthReject(i)

SpecHealthData == Init /\ [][NextHealthData]_vars

NextExec ==
    \/ ExecMount
    \/ ExecUnmount
    \/ \E t \in eTimers : ExecTick(t)
    \/ \E f \in Filters : SetFilter(f)
    \/ ToggleExpanded
    \/ ToggleAutoRefresh
    \/ \E i \in 1..Len(eInFlight), r \in ExecResponses : ExecResolve(i, r)
    \/ \E i \in 1..Len(eInFlight), m \in ErrMessages : ExecReject(i, m)
    \/ \E b \in BOOLEAN : SetAuthenticated(b)
    \/ \E d \in AdvanceSteps : Advance(d)

SpecExec == Init /\ [][NextExec]_vars

NextPanel ==
    \/ PanelMount
    \/ PanelUnmount
    \/ \E c \in EntityChoices : SelectEntity(c)
    \/ \E w \in ExecutableWorkflows : ExecuteWorkflow(w)
    \/ \E a \in QuickActions : QuickAction(a)
    \/ \E i \in 1..Len(wInFlight), ws \in WorkflowResponses : PanelResolve(i, ws)
    \/ \E i \in 1..Len(wInFlight), m \in ErrMessages : PanelReject(i, m)
    \/ \E b \in BOOLEAN : SetAuthenticated(b)

SpecPanel == Init /\ [][NextPanel]_vars

\* the dispatcher next to a mounted health list and execution feed
NextDispatch ==
    \/ PanelMount
    \/ \E c \in {<<"e1", TypeRobot>>, <<"e2", TypeDevice>>} : SelectEntity(c)
    \/ \E w \in ExecutableWorkflows : ExecuteWorkflow(w)
    \/ \E a \in QuickActions : QuickAction(a)
    \/ \E i \in 1..Len(wInFlight), ws \in WorkflowResponses : PanelResolve(i, ws)
    \/ \E i \in 1..Len(wInFlight) : PanelReject(i, "Network Error")
    \/ HealthMount
    \/ \E i \in 1..Len(hInFlight) : HealthResolve(i, <<[id |-> "n8n", status |-> "healthy", latency |-> 42]>>)
    \/ ExecMount
    \/ \E i \in 1..Len(eInFlight) : ExecResolve(i, <<>>)

SpecDispatch == Init /\ [][NextDispatch]_vars

\* both polling components side by side, over a narrower choice of inputs
NextPolling ==
    \/ HealthMount
    \/ HealthUnmount
    \/ \E t \in hTimers : HealthTick(t)
    \/ \E i \in 1..Len(hInFlight) : HealthResolve(i, <<[id |-> "n8n", status |-> "healthy", latency |-> 42]>>)
    \/ ExecMount
    \/ ExecUnmount
    \/ \E t \in eTimers : ExecTick(t)
    \/ \E f \in {"all", "error"} : SetFilter(f)
    \/ ToggleAutoRefresh
    \/ \E i \in 1..Len(eInFlight) : ExecResolve(i, <<>>)
    \/ \E b \in BOOLEAN : SetAuthenticated(b)
    \/ \E d \in AdvanceSteps : Advance(d)

SpecPolling == Init /\ [][NextPolling]_vars

\* the panel and the health list with a backend that need not answer: the event
\* loop lets time pass and runs every interval callback that is due; nothing
\* obliges a pending call to settle, since neither useModuleApi nor the components
\* set a timeout or race the call against a timer
NextWaiting ==
    \/ PanelMount
    \/ \E c \in {<<"e1", TypeRobot>>, <<"e2", TypeDevice>>} : SelectEntity(c)
    \/ \E w \in ExecutableWorkflows : ExecuteWorkflow(w)
    \/ \E i \in 1..Len(wInFlight), ws \in WorkflowResponses : PanelResolve(i, ws)
    \/ \E i \in 1..Len(wInFlight) : PanelReject(i, "Network Error")
    \/ HealthMount
    \/ \E t \in hTimers : HealthTick(t)
    \/ \E i \in 1..Len(hInFlight) : HealthResolve(i, <<[id |-> "n8n", status |-> "healthy", latency |-> 42]>>)
    \/ \E i \in 1..Len(hInFlight) : HealthReject(i)
    \/ \E d \in AdvanceSteps : Advance(d)

SpecWaiting ==
    /\ Init
    /\ [][NextWaiting]_vars
    /\ WF_vars(\E d \in AdvanceSteps : Advance(d))
    /\ WF_vars(\E t \in hTimers : HealthTick(t))

\* the auto-refresh toggle of the execution feed beside the health timer
NextAutoRefresh ==
    \/ HealthMount
    \/ \E t \in hTimers : HealthTick(t)
    \/ \E i \in 1..Len(hInFlight) : HealthResolve(i, <<[id |-> "n8n", status |-> "healthy", latency |-> 42]>>)
    \/ ExecMount
    \/ \E t \in eTimers : ExecTick(t)
    \/ ToggleAutoRefresh
    \/ \E i \in 1..Len(eInFlight) : ExecResolve(i, <<>>)
    \/ \E d \in AdvanceSteps : Advance(d)

SpecAutoRefresh == Init /\ [][NextAutoRefresh]_vars

\* the isAuthenticated guards of the polling components: log-in and log-out
\* while the timers run
NextGuard ==
    \/ HealthMount
    \/ \E t \in hTimers : HealthTick(t)
    \/ HealthRefreshClick
    \/ \E i \in 1..Len(hInFlight) : HealthResolve(i, <<[id |-> "n8n", status |-> "healthy", latency |-> 42]>>)
    \/ ExecMount
    \/ \E t \in eTimers : ExecTick(t)
    \/ \E f \in {"all", "error"} : SetFilter(f)
    \/ \E i \in 1..Len(eInFlight) : ExecResolve(i, <<>>)
    \/ \E b \in BOOLEAN : SetAuthenticated(b)
    \/ \E d \in AdvanceSteps : Advance(d)

SpecGuard == Init /\ [][NextGuard]_vars

----------------------------------------------------------------------------
(* Claims *)

Settled(ops) == lastOp.op \in ops /\ lastOp.arg # "dead"

NotDead(q) == {j \in 1..Len(q) : q[j].st # "dead"}

\* C1: a response is applied to the exposed execution window only when it answers
\* the most recently requested fetch: no newer fetch is in flight behind it, and
\* it was requested with the filter and window size now selected.
C1_OnlyLatestRequestApplied ==
    [][\A i \in 1..Len(eInFlight) :
          ( /\ lastOp'.op = "ExecResolve"
            /\ eInFlight[i].st # "dead"
            /\ eInFlight' = RemoveAt(eInFlight, i)
            /\ eLastResp'.kind = "ok" )
          => ( /\ \A j \in 1..Len(eInFlight) : j # i /\ eInFlight[j] # eInFlight[i] => j < i
               /\ eInFlight[i].filter = filter
               /\ eInFlight[i].expanded = expanded )]_vars

\* C2: a timer tick or a manual refresh never starts a health cycle while another
\* cycle of the component is in flight: at most one health call is outstanding.
C2_NoConcurrentCycles ==
    lastOp.op \in {"HealthTick", "HealthRefreshClick"} => Cardinality(NotDead(hInFlight)) <= 1

\* the integrations whose check failed in the cycle with outcome o: all of them when
\* the health call was rejected, else those for which the answer holds no
\* determinate status (no element, or an element saying "unknown")
FirstElem(data, id) ==
    LET S == {k \in 1..Len(data) : data[k].id = id} IN
    IF S = {} THEN 0 ELSE CHOOSE k \in S : \A m \in S : k <= m

FailedChecks(o) ==
    {i \in 1..6 :
        \/ o.kind = "fail"
        \/ FirstElem(o.data, RegistryIds[i]) = 0
        \/ o.data[FirstElem(o.data, RegistryIds[i])].status \in {"unknown", ""}}

UnknownEntries == {i \in 1..Len(integrations) : integrations[i].status = "unknown"}

C5_OneEntryPerIntegration ==
    /\ Len(integrations) = 6
    /\ [i \in 1..6 |-> integrations[i].id] =
          <<"n8n", "sentinel", "intelligence", "notifications", "odoo", "ros2">>
    /\ \A i \in 1..6 : integrations[i].status \in {"healthy", "degraded", "unhealthy", "unknown"}
    /\ (hLastResp.kind = "none" => \A i \in 1..6 : integrations[i].status = "unknown")

\* C5 witness: a failed cycle after a successful one, after a timer tick
C5_Witness ==
    /\ Settled({"HealthReject"})
    /\ \E i \in 1..6 : integrations[i].latency # NoLatency
    /\ \E t \in hTimers : t.rem < HealthIntervalMs

\* C6: a failed fetch sets the error state to a non-empty message and leaves the
\* exposed window exactly as it was.
C6_FailedFetchKeepsWindow ==
    [][( /\ lastOp'.op = "ExecReject"
         /\ lastOp'.arg # "dead"
         /\ Len(eInFlight') < Len(eInFlight) )
       => ( /\ executions' = executions
            /\ eError' # Null
            /\ eError' # "" )]_vars

\* C6 witness: a fetch failed while a non-empty window was exposed
C6_Witness ==
    /\ Settled({"ExecReject"})
    /\ executions # <<>>
    /\ eError # Null

DispatchKinds == {"executeWorkflow", "requestAnalysis", "requestPrediction"}

\* the step in which the backend call of a dispatch succeeds / fails
DispatchSucceeded ==
    lastOp'.op = "PanelResolve" /\ lastOp'.arg \in DispatchKinds /\ wInFlight' # wInFlight

DispatchFailed ==
    lastOp'.op = "PanelReject" /\ lastOp'.arg \in DispatchKinds /\ wInFlight' # wInFlight

C9_StoppedTimerNeverFires ==
    /\ \A t \in hTimers : hMounted /\ t.id = hCleanup
    /\ \A t \in eTimers : eMounted /\ autoRefresh /\ t.id = eCleanup
    /\ (lastOp.op = "HealthTick" => hMounted /\ lastOp.n = hCleanup)
    /\ (lastOp.op = "ExecTick" => eMounted /\ autoRefresh /\ lastOp.n = eCleanup)

\* C9 witness: time advances after the health component was unmounted with a call
\* in flight and its timer cleared
C9_Witness ==
    /\ ~hMounted /\ hInFlight # <<>> /\ hTimers = {}
    /\ lastOp.op = "Advance"

\* the step in which a call settles that was in flight when its handle was stopped
SettledAfterStop ==
    \/ /\ lastOp'.op \in {"HealthResolve", "HealthReject"}
       /\ lastOp'.arg \in {"stopped", "dead"}
       /\ Len(hInFlight') < Len(hInFlight)
    \/ /\ lastOp'.op \in {"ExecResolve", "ExecReject"}
       /\ lastOp'.arg \in {"stopped", "dead"}
       /\ Len(eInFlight') < Len(eInFlight)

C11_OneFetchInFlight ==
    eMounted => Cardinality(NotDead(eInFlight)) <= 1

\* the step in which the filter or the window size is changed
FilterOrSizeChanged == lastOp'.op \in {"SetFilter", "ToggleExpanded"}

\* C12: a change of the filter or of the window size starts, in the same step, a
\* fetch that carries the new filter and the new window size as its parameters,
\* with auto-refresh on or off.
C12_ChangeFetchesAtOnce ==
    [][FilterOrSizeChanged =>
        /\ Len(eInFlight') = Len(eInFlight) + 1
        /\ LET r == eInFlight'[Len(eInFlight')] IN
            /\ r.st = "cur"
            /\ r.filter = filter'
            /\ r.status = (IF filter' = "all" THEN "undefined" ELSE filter')
            /\ r.expanded = expanded'
            /\ r.limit = (IF expanded' THEN 50 ELSE 10)]_vars

\* C12 witness: the window was expanded with auto-refresh off and a filter set;
\* the fetch for it is in flight
C12_Witness ==
    /\ lastOp.op = "ToggleExpanded"
    /\ ~autoRefresh /\ eTimers = {}
    /\ expanded /\ filter = "error"
    /\ eInFlight # <<>>
    /\ eInFlight[Len(eInFlight)].limit = 50
    /\ eInFlight[Len(eInFlight)].status = "error"

\* C13: a manual refresh re-arms the periodic schedule: right after it the health
\* timer has one full interval left.
C13_RefreshResetsSchedule ==
    [][lastOp'.op = "HealthRefreshClick" =>
        /\ hTimers' # {}
        /\ \A t \in hTimers' : t.rem = HealthIntervalMs]_vars

\* C14: the outcome of a health cycle is never published after the outcome of a
\* cycle that started later has been published.
C14_SnapshotsMonotonic ==
    [][\A i \in 1..Len(hInFlight) :
          ( /\ lastOp'.op \in {"HealthResolve", "HealthReject"}
            /\ hInFlight[i].st # "dead"
            /\ hInFlight' = RemoveAt(Overtake(hInFlight, i), i)
            /\ hLoading' = FALSE )
          => ~hInFlight[i].overtaken]_vars

ElementsFor(i) ==
    {k \in 1..Len(hLastResp.data) : hLastResp.data[k].id = integrations[i].id}

\* C16: after a successful response is applied, every registered integration with
\* an element in the response has that element's status and latency, every one
\* without an element is `unknown`, and the list has the registered ids only.
C16_ResponseMapping ==
    hLastResp.kind = "ok" =>
        /\ [i \in 1..Len(integrations) |-> integrations[i].id] = RegistryIds
        /\ \A i \in 1..Len(integrations) :
              IF ElementsFor(i) = {}
              THEN integrations[i].status = "unknown"
              ELSE \E k \in ElementsFor(i) :
                      /\ integrations[i].status = hLastResp.data[k].status
                      /\ integrations[i].latency = hLastResp.data[k].latency

\* C16 witness: the response [n8n healthy 42, an unregistered id] was applied
C16_Witness ==
    /\ Settled({"HealthResolve"})
    /\ hLastResp.data = <<[id |-> "n8n", status |-> "healthy", latency |-> 42],
                          [id |-> "other", status |-> "healthy", latency |-> 42]>>
    /\ integrations[1] = [id |-> "n8n", status |-> "healthy", latency |-> 42]
    /\ integrations[2].id = "sentinel" /\ integrations[2].status = "unknown"
    /\ Len(integrations) = 6

\* C17: an entry is `unhealthy` only when the response applied last holds an
\* element for it that says `unhealthy`; after a failed call, and for an
\* integration the response does not mention, the entry is `unknown`.
C17_UnhealthyOnlyIfReported ==
    /\ \A i \in 1..Len(integrations) :
          integrations[i].status = "unhealthy" =>
              /\ hLastResp.kind = "ok"
              /\ \E k \in ElementsFor(i) : hLastResp.data[k].status = "unhealthy"
    /\ (hLastResp.kind = "fail" =>
            \A i \in 1..Len(integrations) : integrations[i].status = "unknown")
    /\ (hLastResp.kind = "ok" =>
            \A i \in 1..Len(integrations) :
                ElementsFor(i) = {} => integrations[i].status = "unknown")

\* C17 witness: a call failed right after the list showed an explicit `unhealthy`
C17_Witness ==
    /\ Settled({"HealthReject"})
    /\ hLastResp.kind = "fail"
    /\ \E i \in 1..Len(integrations) :
          integrations[i].status = "unknown" /\ integrations[i].latency = 20

\* C18: after a successful fetch is applied, the window holds exactly the records
\* the backend returned for it.
C18_WindowIsResponse ==
    Settled({"ExecResolve"}) =>
        [k \in 1..Len(executions) |-> executions[k].id] = eLastResp.data

\* C19: when a successful fetch made with filter s and window size w is applied,
\* the window holds at most w records and, unless s is `all`, only records of
\* status s.
C19_WindowBoundAndFilter ==
    [][\A i \in 1..Len(eInFlight) :
          ( /\ lastOp'.op = "ExecResolve"
            /\ lastOp'.arg # "dead"
            /\ eInFlight[i].st # "dead"
            /\ eInFlight' = RemoveAt(eInFlight, i) )
          => ( /\ Len(executions') <= eInFlight[i].limit
               /\ (eInFlight[i].filter # "all" =>
                      \A k \in 1..Len(executions') :
                          executions'[k].status = eInFlight[i].filter) )]_vars

\* C19 witness: a fetch with filter `success` was applied and left three records
C19_Witness ==
    /\ Settled({"ExecResolve"})
    /\ filter = "success" /\ eInFlight = <<>>
    /\ Len(executions) = 3
    /\ \A k \in 1..Len(executions) : executions[k].status = "success"

\* C20: the window is ordered newest-first: of two adjacent records the first
\* did not start before the second.
C20_NewestFirst ==
    \A k \in 1..(Len(executions) - 1) :
        executions[k].startedAgo <= executions[k + 1].startedAgo

\* the steps of the dispatcher: a click on Execute or on a quick action, and the
\* settling of a call of the panel
DispatcherStep ==
    lastOp'.op \in {"ExecuteWorkflow", "QuickAction", "PanelResolve", "PanelReject"}

\* C21: no step of the dispatcher changes the health list or the execution
\* window; the health list changes only when a health call settles (or the
\* component mounts), the execution window only when an execution fetch resolves
\* (or the component mounts).
C21_DispatcherWritesNoFeedState ==
    [][/\ (DispatcherStep => integrations' = integrations /\ executions' = executions)
       /\ (integrations' # integrations
             => lastOp'.op \in {"HealthResolve", "HealthReject", "HealthMount"})
       /\ (executions' # executions => lastOp'.op \in {"ExecResolve", "ExecMount"})]_vars

\* C21 witness: a quick action was dispatched and succeeded while the health list
\* and the execution window held data
C21_Witness ==
    /\ lastOp.op = "PanelResolve" /\ lastOp.arg \in QuickActions
    /\ Len(executions) = 5
    /\ integrations[1].status = "healthy"

\* C22: every started call settles in bounded time, so a loading flag that is
\* true eventually becomes false, whether or not the backend answers.
C22_BoundedWaiting ==
    /\ (wLoading ~> ~wLoading)
    /\ (hLoading ~> ~hLoading)

\* C23: with autoRefresh off the feed has no timer and no timer-driven fetch
\* begins; switching it on arms a timer of 10000 ms, which is re-armed with
\* 10000 ms at every tick; a toggle in either direction leaves the health timer
\* as it is.
C23_AutoRefreshToggle ==
    [][/\ (~autoRefresh' => eTimers' = {})
       /\ (lastOp'.op = "ExecTick" =>
              autoRefresh /\ \E t \in eTimers' : t.id = lastOp'.n /\ t.rem = 10000)
       /\ (lastOp'.op = "ToggleAutoRefresh" =>
              /\ hTimers' = hTimers /\ hCleanup' = hCleanup
              /\ (autoRefresh' => \E t \in eTimers' : t.rem = 10000 /\ eTimers' = {t}))]_vars

\* C23 witness: auto-refresh was switched off and then on again while the health
\* timer was part-way through its interval
C23_Witness ==
    /\ lastOp.op = "ToggleAutoRefresh"
    /\ autoRefresh /\ eMounted
    /\ \E t \in eTimers : t.rem = 10000
    /\ \E t \in hTimers : t.rem = 30000

\* C24: the latency of every entry comes from the health call that set its
\* status: the element of the response applied last, and no latency at all when
\* that call failed or held no element for the entry.
C24_LatencyFromSameResponse ==
    /\ (hLastResp.kind = "fail" =>
            \A i \in 1..Len(integrations) : integrations[i].latency = NoLatency)
    /\ (hLastResp.kind = "ok" =>
            \A i \in 1..Len(integrations) :
                LET k == FirstElem(hLastResp.data, integrations[i].id) IN
                integrations[i].latency =
                    (IF k = 0 THEN NoLatency ELSE hLastResp.data[k].latency))

\* C25: the loading flag of the mounted health component is true exactly when a
\* health request of the component is in flight.
C25_LoadingIffInFlight ==
    hMounted => (hLoading <=> NotDead(hInFlight) # {})

\* C26: once every request of the mounted panel has settled, its loading flag is
\* false.
C26_PanelLoadingClears ==
    (wMounted /\ wInFlight = <<>>) => ~wLoading

\* C27: once every fetch of the mounted, authenticated panel has settled without
\* error, each listed workflow carries the relatedToEntity flag computed for the
\* entity type now selected.
C27_FlagsOfSelectedEntity ==
    (wMounted /\ isAuthenticated /\ wInFlight = <<>> /\ wError = Null) =>
        \A k \in 1..Len(workflows) :
            workflows[k].relatedToEntity
                = RelatedToEntity(workflows[k].name, selectedEntityType)

\* C28: each polling component has at most one interval timer armed, and none
\* when it is not mounted.
C28_OneTimerPerComponent ==
    /\ Cardinality(hTimers) <= 1
    /\ Cardinality(eTimers) <= 1
    /\ (~hMounted => hTimers = {})
    /\ (~eMounted => eTimers = {})

\* C28 witness: the filter was changed while both timers were running; each
\* component still has one timer, the feed's being the new one
C28_Witness ==
    /\ lastOp.op = "SetFilter"
    /\ \E t \in eTimers : t.filter = "error" /\ t.rem = ExecIntervalMs /\ eTimers = {t}
    /\ \E t \in hTimers : t.rem < HealthIntervalMs /\ hTimers = {t}

\* C29: while the user is not authenticated, a timer tick starts no request and
\* changes neither the health list, the execution window, the error state nor a
\* loading flag, and neither a manual refresh nor a filter change takes place.
C29_NoRequestUnauthenticated ==
    [][~isAuthenticated =>
        /\ (lastOp'.op \in {"HealthTick", "ExecTick"} =>
               /\ hInFlight' = hInFlight /\ eInFlight' = eInFlight
               /\ UNCHANGED <<integrations, executions, eError, hLoading, eLoading>>)
        /\ lastOp'.op \notin {"HealthRefreshClick", "SetFilter"}]_vars

\* C29 witness: both timers have fired after a log-out that left the lists filled
C29_Witness ==
    /\ ~isAuthenticated
    /\ lastOp.op = "ExecTick"
    /\ hMounted /\ \E t \in hTimers : t.rem = HealthIntervalMs - ExecIntervalMs
    /\ Len(executions) = 5
    /\ integrations[1].status = "healthy"

\* C30: the execution feed holds an error message exactly when the fetch that
\* completed last on the mounted component failed; after a success, and before
\* any fetch has completed, the message is null.
C30_ErrorIffLastFetchFailed ==
    /\ (eError # Null) <=> (eLastResp.kind = "fail")
    /\ eLastResp.kind = "fail" => eError \in {"Failed to load executions", "Network Error"}

\* C30 witness: a fetch has failed after an earlier one had filled the window,
\* and the message of the failure is shown
C30_Witness ==
    /\ lastOp.op = "ExecReject" /\ lastOp.arg # "dead"
    /\ eMounted
    /\ eError = "Network Error"
    /\ eLastResp.kind = "fail"
    /\ eLoading = FALSE
    /\ Len(executions) = 5

====
